---- MODULE Spec2Model ----
(***************************************************************************)
(* A model of Qprompt (lib/qprompt.py): the ask() validation loop, the     *)
(* show_menu()/show_limit() menu engine and Menu.main() with its handling  *)
(* of the process-wide input stream.                                       *)
(***************************************************************************)
EXTENDS Integers, Sequences, FiniteSets, TLC

\* ------------------------------------------------------------------ bounds

\* Most rules a caller passes to ask() in the general configurations.
MaxRules == 2
\* Most lines read by one ask() call before the model stops reading.
MaxReads == 2
\* Most entries of a menu built from the general entries.
MaxEntries == 3
\* Largest page limit of a show_menu call.
MaxLimit == 2
\* Most lines read by one show_menu call before the model stops reading.
MaxMenuReads == 3
\* Most entries the caller adds to the menu that Menu.main is run on.
MaxMainEntries == 2
\* Most calls of Menu.main the caller makes one after the other.
MaxCalls == 2
\* Most lines read by the Menu.main calls before the model stops reading.
MaxMainReads == 3

\* ------------------------------------------------------- Python values

\* Every Python value of the model is a record of the same shape.
None == [t |-> "none", s |-> "", n |-> 0]
Raise == [t |-> "raise", s |-> "", n |-> 0]
StrV(x) == [t |-> "str", s |-> x, n |-> 0]
IntV(k) == [t |-> "int", s |-> "", n |-> k]
FltV(k) == [t |-> "float", s |-> "", n |-> k]
BoolV(b) == [t |-> "bool", s |-> "", n |-> IF b THEN 1 ELSE 0]
TypV(x) == [t |-> "type", s |-> x, n |-> 0]
FunV(x) == [t |-> "func", s |-> x, n |-> 0]

\* The decimal texts of the integers of the model: str(k) and int(text).
Digits == <<"0", "1", "2", "3", "4", "5", "6", "7", "8", "9">>
FloatTexts == <<"0.0", "1.0", "2.0", "3.0", "4.0", "5.0", "6.0", "7.0", "8.0", "9.0">>

IsIntText(x) == \E i \in 1..Len(Digits) : Digits[i] = x
IntOfText(x) == (CHOOSE i \in 1..Len(Digits) : Digits[i] = x) - 1
IsFloatText(x) == \E i \in 1..Len(FloatTexts) : FloatTexts[i] = x
FloatOfText(x) == (CHOOSE i \in 1..Len(FloatTexts) : FloatTexts[i] = x) - 1

IsNum(v) == v.t \in {"int", "float", "bool"}

\* Python's ==: numbers compare by value across int, float and bool.
PyEq(a, b) == IF IsNum(a) /\ IsNum(b) THEN a.n = b.n ELSE a = b

\* Python's truth value of a value.
Truthy(v) ==
    CASE v.t = "none" -> FALSE
      [] v.t = "str" -> v.s # ""
      [] IsNum(v) -> v.n # 0
      [] OTHER -> TRUE

\* int(v): a TypeError or ValueError is the value Raise.
PyInt(v) ==
    CASE v.t = "str" -> IF IsIntText(v.s) THEN IntV(IntOfText(v.s)) ELSE Raise
      [] IsNum(v) -> IntV(v.n)
      [] OTHER -> Raise

\* float(v).
PyFloat(v) ==
    CASE v.t = "str" -> IF IsIntText(v.s) THEN FltV(IntOfText(v.s))
                        ELSE IF IsFloatText(v.s) THEN FltV(FloatOfText(v.s))
                        ELSE Raise
      [] IsNum(v) -> FltV(v.n)
      [] OTHER -> Raise

\* str(v): never fails.
PyStr(v) ==
    CASE v.t = "str" -> v
      [] v.t = "int" -> StrV(Digits[v.n + 1])
      [] v.t = "float" -> StrV(FloatTexts[v.n + 1])
      [] v.t = "bool" -> StrV(IF v.n = 1 THEN "True" ELSE "False")
      [] v.t = "none" -> StrV("None")
      [] v.t = "type" -> StrV(CASE v.s = "int" -> "<class 'int'>"
                                [] v.s = "float" -> "<class 'float'>"
                                [] OTHER -> "<class 'str'>")
      [] OTHER -> StrV("<function>")

\* typ(val) for the type objects int, float and str.
CallType(typ, val) ==
    CASE typ = "int" -> PyInt(val)
      [] typ = "float" -> PyFloat(val)
      [] OTHER -> PyStr(val)

\* cast(val, typ): the converted value, or None when the conversion raises.
cast(val, typ) ==
    LET r == CallType(typ, val) IN IF r = Raise THEN None ELSE r

\* The formatters of the model: none given (ask's identity lambda), the type
\* int itself (raises on failure), partial(cast, typ=int) and
\* partial(cast, typ=float) as ask_int and ask_float pass them.
Fmts == {"none", "int", "cast_int", "cast_float"}

ApplyFmt(fmt, v) ==
    CASE fmt = "none" -> v
      [] fmt = "int" -> PyInt(v)
      [] fmt = "cast_int" -> cast(v, "int")
      [] OTHER -> cast(v, "float")

\* The predicate rules of the model: p_any accepts every candidate, p_raise
\* raises on every candidate.
CallPred(name, val) ==
    CASE name = "p_any" -> BoolV(TRUE)
      [] OTHER -> Raise

\* v(ans) for a callable rule v (a type or a function).
CallRule(v, ans) ==
    IF v.t = "type" THEN CallType(v.s, ans) ELSE CallPred(v.s, ans)

Callable(v) == v.t \in {"type", "func"}

\* x is an element of the sequence q.
InSeq(x, q) == \E i \in 1..Len(q) : q[i] = x

\* x in lst
PyIn(x, lst) == \E i \in 1..Len(lst) : PyEq(lst[i], x)

\* Every string of the model, in Python's string order (by code point).
StrOrder == <<"", "->", "0", "1", "2", "3", "4", "5", "6", "7", "8", "9",
              "<-", "<<", "<<<", ">>", ">>>", "?", "N", "NEXT", "NO",
              "None", "P", "PREV", "Y", "YES", "a", "b", "n", "next", "no",
              "p", "prev", "q", "x", "y", "yes">>
StrRank(x) == CHOOSE i \in 1..Len(StrOrder) : StrOrder[i] = x

\* a < b where sorted() can compare the two.
PyLess(a, b) == IF a.t = "str" THEN StrRank(a.s) < StrRank(b.s) ELSE a.n < b.n

\* sorted(lst) succeeds: all strings or all numbers (a list of fewer than two
\* elements is never compared).
Sortable(lst) ==
    \/ Len(lst) < 2
    \/ \A i \in 1..Len(lst) : lst[i].t = "str"
    \/ \A i \in 1..Len(lst) : IsNum(lst[i])

\* list(set(lst)) up to order: the first of every group of equal elements.
Dedup(lst) ==
    LET keep == {i \in 1..Len(lst) : \A j \in 1..(i - 1) : ~PyEq(lst[j], lst[i])}
        F[i \in 0..Len(lst)] ==
            IF i = 0 THEN <<>>
            ELSE IF i \in keep THEN Append(F[i - 1], lst[i]) ELSE F[i - 1]
    IN F[Len(lst)]

\* The orders list(set(...)) may produce: every arrangement of the elements.
Perms(lst) ==
    {p \in [1..Len(lst) -> {lst[i] : i \in 1..Len(lst)}] :
        \A i, j \in 1..Len(lst) : i # j => p[i] # p[j]}

\* ------------------------------------------------------------------ ask

\* vld after "fmt(v) if fmt(v) else v" for every rule: an element is Raise
\* when the formatter raises on that rule.
Sanitized(fmt, lst) ==
    [i \in 1..Len(lst) |->
        LET f == ApplyFmt(fmt, lst[i])
        IN IF f = Raise THEN Raise ELSE IF Truthy(f) THEN f ELSE lst[i]]

\* dft after "dft = fmt(dft) if dft != None else None".
FormattedDft(fmt, dft) == IF dft # None THEN ApplyFmt(fmt, dft) ELSE None

\* vld after "vld.append(dft)" when a default is set.
RulesWithDft(fmt, dft, rules) ==
    LET d == FormattedDft(fmt, dft)
    IN IF d # None /\ d # Raise THEN Append(rules, d) ELSE rules

\* The list object passed as vld, after the call. "vld or []" keeps a non-empty
\* list as the very object that was passed, so the append of the formatted
\* default lands in it; an empty list is replaced by a fresh one. The set
\* comprehension rebinds vld, so nothing after it reaches the passed object.
PassedList(fmt, dft, rules) ==
    IF rules = <<>> THEN rules ELSE RulesWithDft(fmt, dft, rules)

\* ask() raises before its first read: the formatter raises on the default
\* or on one of the rules.
AskSetupRaises(fmt, dft, rules) ==
    \/ FormattedDft(fmt, dft) = Raise
    \/ InSeq(Raise, Sanitized(fmt, RulesWithDft(fmt, dft, rules)))

\* blk after the default is handled: a default switches blank input off.
BlkAfterDft(fmt, dft, blk) == IF FormattedDft(fmt, dft) # None THEN FALSE ELSE blk

\* The blank string is added to a non-empty rule list when blk is set.
AddsBlank(blk, lst) == blk /\ ~PyIn(StrV(""), lst)

\* lst with the blank string appended when add is set.
WithBlank(lst, add) == IF add THEN Append(lst, StrV("")) ELSE lst

\* The sanitized and deduplicated list v2 in the orders ask() may end with.
VldOrders(v2, v3, add) ==
    IF Sortable(v3) THEN {SortSeq(v3, PyLess)}
    ELSE {WithBlank(q, add) : q \in Perms(v2)}

VldBlankAdded(v2, add) == VldOrders(v2, WithBlank(v2, add), add)

VldWithBlank(v2, b1) == VldBlankAdded(v2, AddsBlank(b1, v2))

\* The rule lists ask() may validate against: sanitized, deduplicated, the
\* blank string added, sorted when sorted() succeeds and otherwise in any
\* order of the set with an added blank string last.
AskVlds(fmt, dft, rules, blk) ==
    IF RulesWithDft(fmt, dft, rules) = <<>> THEN {<<>>}
    ELSE VldWithBlank(Dedup(Sanitized(fmt, RulesWithDft(fmt, dft, rules))),
                      BlkAfterDft(fmt, dft, blk))

\* The configurations ask() may prompt with after lines 368-388.
AskSetup(fmt, dft, rules, blk) ==
    {[fmt |-> fmt, dft |-> FormattedDft(fmt, dft), vld |-> v,
      blk |-> BlkAfterDft(fmt, dft, blk)] : v \in AskVlds(fmt, dft, rules, blk)}

\* A type rule that breaks the loop without replacing ans by the cast value.
RuleStep_KeepsText(v, ans, vld) ==
    IF v.t = "type" /\ cast(ans, v.s) # None
    THEN [hit |-> TRUE, val |-> ans]
    ELSE IF Callable(v)
    THEN [hit |-> CallRule(v, ans) # Raise /\ Truthy(CallRule(v, ans)), val |-> ans]
    ELSE [hit |-> PyIn(ans, vld), val |-> ans]

\* A predicate that raises taken as a match.
RuleStep_RaiseMatches(v, ans, vld) ==
    IF v.t = "type" /\ cast(ans, v.s) # None
    THEN [hit |-> TRUE, val |-> cast(ans, v.s)]
    ELSE IF Callable(v)
    THEN [hit |-> CallRule(v, ans) = Raise \/ Truthy(CallRule(v, ans)), val |-> ans]
    ELSE [hit |-> PyIn(ans, vld), val |-> ans]

\* One rule of the for loop on candidate ans: whether it breaks the loop and
\* the value of ans after it.
RuleStep(v, ans, vld) ==
    IF v.t = "type" /\ cast(ans, v.s) # None
    THEN [hit |-> TRUE, val |-> cast(ans, v.s)]
    ELSE IF Callable(v)
    THEN LET r == CallRule(v, ans)
         IN [hit |-> r # Raise /\ Truthy(r), val |-> ans]
    ELSE [hit |-> PyIn(ans, vld), val |-> ans]

\* The place in vld of the first rule that breaks the for loop on ans, 0 when
\* none does.
FirstHit(ans, vld) ==
    LET hits == {i \in 1..Len(vld) : RuleStep(vld[i], ans, vld).hit}
    IN IF hits = {} THEN 0 ELSE CHOOSE i \in hits : \A j \in hits : i <= j

\* The for loop with its else clause run even after a break.
Validate_ElseAlways(ans, vld) == None

\* The for loop over vld with its else clause: the value of the first rule
\* that breaks, or None when no rule breaks.
Validate(ans, vld) ==
    LET hits == {i \in 1..Len(vld) : RuleStep(vld[i], ans, vld).hit}
    IN IF hits = {} THEN None
       ELSE RuleStep(vld[CHOOSE i \in hits : \A j \in hits : i <= j], ans, vld).val

\* print_help() raises: lst.remove("") when the blank string is not a rule.
HelpRaises(c) ==
    c.blk /\ ~\E i \in 1..Len(c.vld) : ~Callable(c.vld[i]) /\ c.vld[i] = StrV("")

\* ans after formatting: a raising formatter leaves None.
FormatAns(fmt, line) ==
    LET a == ApplyFmt(fmt, StrV(line)) IN IF a = Raise THEN None ELSE a

\* The blank line sent through the rule loop instead of returning the default.
BlankAnswer_Validated(c) == Validate(FormatAns(c.fmt, ""), c.vld)

\* ans on a blank line when a default is set: "dft if not fmt else fmt(dft)",
\* fmt being always callable.
BlankAnswer(c) == ApplyFmt(c.fmt, c.dft)

\* The end of a pass of the while loop with ans as the value of ans.
AskChecked(ans) ==
    [kind |-> IF ans = None THEN "retry" ELSE "return", val |-> ans, help |-> FALSE]

\* A pass on a line that fmt turned into ans: the rule loop when there are
\* rules.
AskFormatted(c, ans) ==
    AskChecked(IF c.vld = <<>> THEN ans ELSE Validate(ans, c.vld))

\* A pass on a blank line with a default set, ans being the default formatted.
AskBlank(ans) ==
    [kind |-> IF ans = Raise THEN "raise" ELSE "return", val |-> ans, help |-> FALSE]

\* One pass of the while loop on one line read.
\* kind: "retry" (ans is None, read again), "return" or "raise".
AskIter(c, line) ==
    IF line = "?"
    THEN [kind |-> IF HelpRaises(c) THEN "raise" ELSE "retry", val |-> None, help |-> TRUE]
    ELSE IF line = "" /\ c.dft # None
    THEN AskBlank(BlankAnswer(c))
    ELSE IF line = "" /\ ~PyIn(StrV(""), c.vld)
    THEN [kind |-> "retry", val |-> None, help |-> FALSE]
    ELSE AskFormatted(c, FormatAns(c.fmt, line))

\* ask_yesno's literal lists.
yes == <<StrV("y"), StrV("yes"), StrV("Y"), StrV("YES")>>
no == <<StrV("n"), StrV("no"), StrV("N"), StrV("NO")>>

\* ask_yesno's default as it is passed to ask().
YesNoDft(dft) ==
    IF dft # None
    THEN (IF PyIn(dft, yes) \/ PyEq(dft, BoolV(TRUE)) THEN yes[1] ELSE no[1])
    ELSE None

\* What the caller gets from the value ask() returns.
CallResult(kind, val) == IF kind = "ask_yesno" THEN BoolV(PyIn(val, yes)) ELSE val

\* ------------------------------------------------- the calls of the model

\* The rules general calls of ask() draw from, in the order of the caller's list.
RuleOrder == <<IntV(2), StrV("a"), StrV(""), TypV("int"), TypV("str"),
               TypV("float"), FunV("p_any"), FunV("p_raise")>>
RuleSets == {S \in SUBSET {RuleOrder[i] : i \in 1..Len(RuleOrder)} :
                Cardinality(S) <= MaxRules}
RuleList(S) == SelectSeq(RuleOrder, LAMBDA r : r \in S)

\* The defaults general calls of ask() draw from.
Dfts == {None, StrV("a"), StrV("2"), IntV(0)}

\* The lines a read may return.
AskLines == {"", "?", "a", "0", "2", "5"}

AskCall(kind, fmt, dft, rules, blk) ==
    [kind |-> kind, fmt |-> fmt, dft |-> dft, rules |-> rules, blk |-> blk]

\* ask(msg, vld=[1, 2, 3]) with and without a formatter.
Rules123 == <<IntV(1), IntV(2), IntV(3)>>
Pick123(fmt) == AskCall("ask", fmt, None, Rules123, FALSE)

\* ask_yesno(dft=d): ask(msg, dft=d', vld=yes+no).
YesNoCall(d) == AskCall("ask_yesno", "none", YesNoDft(d), yes \o no, FALSE)

AskCalls ==
    {AskCall("ask", f, d, RuleList(S), b) :
        f \in Fmts, d \in Dfts, S \in RuleSets, b \in BOOLEAN}
    \cup {Pick123(f) : f \in Fmts}
    \cup {YesNoCall(d) : d \in {None, BoolV(TRUE), BoolV(FALSE), StrV("yes"), StrV("a")}}

NoCall == AskCall("none", "none", None, <<>>, FALSE)
NoCfg == [fmt |-> "none", dft |-> None, vld |-> <<>>, blk |-> FALSE]

\* ------------------------------------------------------------------ state

VARIABLES
    a_pc,       \* ask: "idle", "prompting", "returned" or "raised"
    a_call,     \* ask: the arguments of the call
    a_cfg,      \* ask: fmt, dft, vld and blk after lines 368-388
    a_hist,     \* ask: the lines read so far
    a_ret,      \* ask: the value returned to the caller
    a_helps,    \* ask: the number of times help was printed
    a_vld,      \* ask: the elements of the list object passed as vld
    m_pc,       \* menu: "idle", "prompt", "done" or "raised"
    m_call,     \* menu: the arguments of the show_menu call
    istart,     \* show_limit: index of group start
    iend,       \* show_limit: index of group end
    m_win,      \* show_limit: the group, names and default of this pass
    m_cfg,      \* menu: the configuration of the ask() call that is prompting
    m_reads,    \* menu: the number of lines read so far
    m_result,   \* menu: the value returned to the caller
    m_calls,    \* menu: the invocations of entry functions, in order
    m_sel,      \* menu: the entry picked by the last accepted choice
    m_seen,     \* menu: the places of the entries shown so far in the call
    sys_stdin,  \* the process-wide input stream, sys.stdin
    buf,        \* the unread lines of stdin_setup._stream
    menus,      \* the entries of the Menu objects "top" and "sub"
    stack,      \* the Menu.main calls in progress, innermost last
    x_last,     \* the last exit of a Menu.main call
    x_reads,    \* the number of lines the Menu.main calls have read
    x_calls,    \* the number of Menu.main calls the caller has made
    x_runs      \* the entry functions Menu.main calls ran, in order

askVars == <<a_pc, a_call, a_cfg, a_hist, a_ret, a_helps, a_vld>>
menuVars == <<m_pc, m_call, istart, iend, m_win, m_cfg, m_reads, m_result,
             m_calls, m_sel, m_seen>>
mainVars == <<sys_stdin, buf, menus, stack, x_last, x_reads, x_calls, x_runs>>
vars == <<askVars, menuVars, mainVars>>
notAsk == <<menuVars, mainVars>>
notMenu == <<askVars, mainVars>>
notMain == <<askVars, menuVars>>

Last(q) == q[Len(q)]
Front(q) == SubSeq(q, 1, Len(q) - 1)

AskInit ==
    /\ a_pc = "idle"
    /\ a_call = NoCall
    /\ a_cfg = NoCfg
    /\ a_hist = <<>>
    /\ a_ret = None
    /\ a_helps = 0
    /\ a_vld = <<>>

\* A call of ask() up to its first read.
AskEnter ==
    /\ a_pc = "idle"
    /\ \E call \in AskCalls :
        /\ a_call' = call
        /\ a_vld' = PassedList(call.fmt, call.dft, call.rules)
        /\ IF AskSetupRaises(call.fmt, call.dft, call.rules)
           THEN a_pc' = "raised" /\ a_cfg' = a_cfg
           ELSE /\ a_pc' = "prompting"
                /\ \E c \in AskSetup(call.fmt, call.dft, call.rules, call.blk) :
                      a_cfg' = c
    /\ UNCHANGED <<a_hist, a_ret, a_helps>>
    /\ UNCHANGED notAsk

\* One read of a line and the pass of the while loop on it.
AskRead ==
    /\ a_pc = "prompting"
    /\ Len(a_hist) < MaxReads
    /\ \E line \in AskLines :
        \E r \in {AskIter(a_cfg, line)} :
           /\ a_hist' = Append(a_hist, line)
           /\ a_helps' = IF r.help /\ r.kind # "raise" THEN a_helps + 1 ELSE a_helps
           /\ a_pc' = CASE r.kind = "retry" -> "prompting"
                        [] r.kind = "return" -> "returned"
                        [] OTHER -> "raised"
           /\ a_ret' = IF r.kind = "return" THEN CallResult(a_call.kind, r.val)
                       ELSE a_ret
    /\ UNCHANGED <<a_call, a_cfg, a_vld>>
    /\ UNCHANGED notAsk

AskNext == AskEnter \/ AskRead


\* ----------------------------------------------- show_menu and show_limit

MenuEntry(name, desc, func, args, krgs) ==
    [name |-> name, desc |-> desc, func |-> func, args |-> args, krgs |-> krgs]

\* The entries show_limit appends carry None as func, args and krgs.
Synthetic(name, desc) == MenuEntry(name, desc, "none", <<>>, {})

\* The names show_limit tries for its 'next' and 'prev' entries.
NextNames == <<"n", "N", "next", "NEXT", "->", ">>", ">>>">>
PrevNames == <<"p", "P", "prev", "PREV", "<-", "<<", "<<<">>

Min(a, b) == IF a < b THEN a ELSE b

\* entries[istart:iend], a Python slice with 0 <= istart.
Slice(entries, s, e) == SubSeq(entries, s + 1, Min(e, Len(entries)))

\* The window taken as it is, neither clamp applied.
Clamp_Unclamped(s, e, limit, n) == [istart |-> s, iend |-> e]

\* The end clamped without moving the start back ("istart = iend - limit" left
\* out).
Clamp_NoShrink(s, e, limit, n) ==
    [istart |-> IF s < 0 THEN 0 ELSE s, iend |-> IF e > n THEN n ELSE e]

\* The window after the two clamps at the top of the while loop.
Clamp(s, e, limit, n) ==
    LET s1 == IF e > n THEN n - limit ELSE s
        e1 == IF e > n THEN n ELSE e
    IN IF s1 < 0 THEN [istart |-> 0, iend |-> limit]
       ELSE [istart |-> s1, iend |-> e1]

\* The first name of cands that is not in names, "" when all are taken.
FirstFree(cands, names) ==
    LET free == {i \in 1..Len(cands) : ~InSeq(cands[i], names)}
    IN IF free = {} THEN "" ELSE cands[CHOOSE i \in free : \A j \in free : i <= j]

NamesOf(group) == [i \in 1..Len(group) |-> group[i].name]

\* "Next %u of %u entries" and "Previous %u of %u entries".
NextDesc(unext, n) == "Next " \o Digits[unext + 1] \o " of " \o Digits[n + 1] \o " entries"
PrevDesc(uprev, n) == "Previous " \o Digits[uprev + 1] \o " of " \o Digits[n + 1] \o " entries"

\* One pass of show_limit's loop up to the show_menu call: the group shown,
\* the names list, the names and descriptions of the synthetic entries ("" when
\* there is none) and the default passed on.
Window(entries, s, e, dft) ==
    LET n == Len(entries)
        unext == n - e
        uprev == s
        real == Slice(entries, s, e)
        names0 == NamesOf(real)
        nnext == IF unext > 0 THEN FirstFree(NextNames, names0) ELSE ""
        dnext == IF nnext # "" THEN NextDesc(unext, n) ELSE ""
        group1 == IF nnext # "" THEN Append(real, Synthetic(nnext, dnext)) ELSE real
        names1 == IF nnext # "" THEN Append(names0, "n") ELSE names0
        nprev == IF uprev > 0 THEN FirstFree(PrevNames, names1) ELSE ""
        dprev == IF nprev # "" THEN PrevDesc(uprev, n) ELSE ""
        group2 == IF nprev # "" THEN Append(group1, Synthetic(nprev, dprev)) ELSE group1
        names2 == IF nprev # "" THEN Append(names1, "p") ELSE names1
        tmpdft == IF dft # None
                  THEN (IF ~InSeq(dft.s, names2)
                        THEN (IF InSeq("n", names2) THEN StrV("n") ELSE None)
                        ELSE dft)
                  ELSE None
    IN [group |-> group2, nreal |-> Len(real), names |-> names2,
        nnext |-> nnext, dnext |-> dnext, nprev |-> nprev, dprev |-> dprev,
        tmpdft |-> tmpdft]

\* show_menu called without a limit: the entries as they are, no synthetic
\* entry, the default as given.
PlainWindow(entries, dft) ==
    [group |-> entries, nreal |-> Len(entries), names |-> NamesOf(entries),
     nnext |-> "", dnext |-> "", nprev |-> "", dprev |-> "", tmpdft |-> dft]

\* show_menu's and show_limit's "if type(dft) == int: dft = str(dft)".
MenuDft(dft) == IF dft.t = "int" THEN PyStr(dft) ELSE dft

\* The configuration show_menu calls ask() with: vld the entry names, the
\* default kept only when it is one of them.
MenuAskCfg(group, dft) ==
    LET valid == [i \in 1..Len(group) |-> StrV(group[i].name)]
        d == IF PyIn(MenuDft(dft), valid) THEN MenuDft(dft) ELSE None
    IN CHOOSE c \in AskSetup("none", d, valid, FALSE) : TRUE

\* run_func with every call repeated.
RunFunc_Twice(entry) ==
    IF entry.func # "none"
    THEN <<[func |-> entry.func, args |-> entry.args, krgs |-> entry.krgs],
           [func |-> entry.func, args |-> entry.args, krgs |-> entry.krgs]>>
    ELSE <<>>

\* run_func: the calls made, each with the function, its positional and its
\* named arguments.
RunFunc(entry) ==
    IF entry.func # "none"
    THEN IF entry.args # <<>> /\ entry.krgs # {}
         THEN <<[func |-> entry.func, args |-> entry.args, krgs |-> entry.krgs]>>
         ELSE IF entry.args # <<>>
         THEN <<[func |-> entry.func, args |-> entry.args, krgs |-> {}]>>
         ELSE IF entry.krgs # {}
         THEN <<[func |-> entry.func, args |-> <<>>, krgs |-> entry.krgs]>>
         ELSE <<[func |-> entry.func, args |-> <<>>, krgs |-> {}]>>
    ELSE <<>>

\* The entry function "boom" raises when it is called.
FuncRaises(entry) == entry.func = "boom"

\* getattr(entry, returns) for the fields name and desc.
Field(entry, returns) == StrV(IF returns = "name" THEN entry.name ELSE entry.desc)

\* The last entry of the given name instead of the first.
Pick_Last(group, choice) ==
    LET hits == {i \in 1..Len(group) : StrV(group[i].name) = choice}
    IN IF hits = {} THEN 0 ELSE CHOOSE i \in hits : \A j \in hits : i >= j

\* [i for i in entries if i.name == choice][0]: the index of the first entry of
\* that name, 0 when there is none (IndexError).
Pick(group, choice) ==
    LET hits == {i \in 1..Len(group) : StrV(group[i].name) = choice}
    IN IF hits = {} THEN 0 ELSE CHOOSE i \in hits : \A j \in hits : i <= j

\* show_menu after ask() ended its pass with r and the entry at idx was
\* looked up for the value returned (0: there is none).
ShowMenuPicked(r, idx, group, returns) ==
    IF r.kind # "return"
    THEN [kind |-> r.kind, val |-> None, idx |-> 0, calls |-> <<>>,
          choice |-> None]
    ELSE IF idx = 0
    THEN [kind |-> "raise", val |-> None, idx |-> 0, calls |-> <<>>,
          choice |-> r.val]
    ELSE IF FuncRaises(group[idx])
    THEN [kind |-> "raise", val |-> None, idx |-> idx,
          calls |-> RunFunc(group[idx]), choice |-> r.val]
    ELSE [kind |-> "return", val |-> Field(group[idx], returns), idx |-> idx,
          calls |-> RunFunc(group[idx]), choice |-> r.val]

ShowMenuAsked(r, group, returns) ==
    ShowMenuPicked(r, IF r.kind = "return" THEN Pick(group, r.val) ELSE 0,
                   group, returns)

\* show_menu on one line read: "retry" (ask reads again), "raise" (IndexError
\* or the entry's function raised) or "return" with the requested field; idx is
\* the entry picked, choice the value ask() accepted and calls the functions
\* invoked.
ShowMenuStep(cfg, group, returns, line) ==
    ShowMenuAsked(AskIter(cfg, line), group, returns)

\* The window moved by twice the limit.
Move_Twice(nav, limit) ==
    IF nav = "next" THEN 2 * limit ELSE IF nav = "prev" THEN 0 - 2 * limit ELSE 0

\* istart += limit, istart -= limit or neither.
Move(nav, limit) == IF nav = "next" THEN limit ELSE IF nav = "prev" THEN 0 - limit ELSE 0

\* Every result taken for the end of the loop.
Navigation_AlwaysReturns(w, result) == "return"

\* What show_limit does with show_menu's result: "next", "prev" or "return".
Navigation(w, result) ==
    IF result = StrV(w.nnext) \/ result = StrV(w.dnext) THEN "next"
    ELSE IF result = StrV(w.nprev) \/ result = StrV(w.dprev) THEN "prev"
    ELSE "return"

\* The entries general menus are built from: a repeated name, empty names and
\* descriptions, names and descriptions that show_limit uses itself, functions
\* with and without arguments, one that raises and none.
EntryPool ==
    {MenuEntry("a", "x", "f", <<1>>, {"k"}),
     MenuEntry("a", "", "g", <<>>, {}),
     MenuEntry("n", "x", "f", <<1>>, {}),
     MenuEntry("", "n", "g", <<>>, {"k"}),
     MenuEntry("p", "x", "none", <<>>, {}),
     MenuEntry("3", "y", "boom", <<>>, {})}

EntryLists == UNION {[1..k -> EntryPool] : k \in 0..MaxEntries}

\* enum_menu(strs).entries for k strings: the names "1".."k", no function.
Enum(k) == [i \in 1..k |-> MenuEntry(Digits[i + 1], "x", "none", <<>>, {})]

\* show_menu(entries, limit=l, returns=r, dft=d); limit 0 stands for no limit.
\* script is the input fed to the call: the lines of a scripted input in
\* order, or <<>> for a user who may type any line at every prompt.
MenuCall(entries, limit, returns, dft, script) ==
    [entries |-> entries, limit |-> limit, returns |-> returns, dft |-> dft,
     script |-> script]

\* The scripted inputs of the model.
Scripts == {<<"n", "n", "3">>, <<"n", "n", "7">>, <<"n", "p", "1">>}

\* The menu [("a", "Add"), ("b", "Subtract")] with a function bound to each.
AddSub == <<MenuEntry("a", "Add", "f", <<>>, {}),
            MenuEntry("b", "Subtract", "g", <<>>, {})>>

\* A menu whose first seven entries carry the seven names show_limit may give
\* its next entry, followed by one more entry.
NextNamed == [i \in 1..8 |-> MenuEntry(IF i <= 7 THEN NextNames[i] ELSE "a", "x",
                                        "none", <<>>, {})]

MenuCalls ==
    {MenuCall(es, l, r, d, <<>>) :
        es \in EntryLists, l \in 0..MaxLimit, r \in {"name", "desc"},
        d \in {None, StrV("a")}}
    \cup {MenuCall(Enum(k), l, "name", None, <<>>) : k \in 0..7, l \in 1..MaxLimit}
    \cup {MenuCall(Enum(7), 3, "name", None, sc) : sc \in Scripts \cup {<<>>}}
    \cup {MenuCall(AddSub, l, "name", None, <<"a">>) : l \in 0..MaxLimit}
    \cup {MenuCall(NextNamed, 7, "name", None, <<>>)}

\* The lines a user may type at a menu prompt.
MenuLines == {"", "a", "n", "p", "3", "7"}

\* The lines the next read may return: any line from a user, the next line of
\* a script (none when the script is used up: the read raises EOFError).
NextLines(script, reads) ==
    IF script = <<>> THEN MenuLines
    ELSE IF reads < Len(script) THEN {script[reads + 1]} ELSE {}

\* No choice accepted yet. Of an accepted choice the model keeps: at, the read
\* it came with; choice, the value ask() returned; idx and entry, the entry
\* picked and its place in the group; real, whether it is one of the caller's
\* entries; nav, what show_limit made of the result.
NoSel == [at |-> 0, choice |-> None, idx |-> 0, real |-> FALSE, nav |-> "none",
          entry |-> Synthetic("", "")]

MenuInit ==
    /\ m_pc = "idle"
    /\ m_call = MenuCall(<<>>, 0, "name", None, <<>>)
    /\ istart = 0
    /\ iend = 0
    /\ m_win = PlainWindow(<<>>, None)
    /\ m_cfg = NoCfg
    /\ m_reads = 0
    /\ m_result = None
    /\ m_calls = <<>>
    /\ m_sel = NoSel
    /\ m_seen = {}

\* The input streams: "tty" is sys.stdin when qprompt is imported, "buf" is
\* stdin_setup._stream, "user" is a stream the caller installs itself.
Original == "tty"

\* Menu.main's default quit entry.
QuitName == "q"
QuitDesc == "Quit"

NoExit == [how |-> "none", before |-> Original, after |-> Original, ret |-> None]

MainInit ==
    /\ sys_stdin = Original
    /\ buf = <<>>
    /\ menus = [top |-> <<>>, sub |-> <<MenuEntry("a", "Sub item", "none", <<>>, {})>>]
    /\ stack = <<>>
    /\ x_last = NoExit
    /\ x_reads = 0
    /\ x_calls = 0
    /\ x_runs = <<>>

Init == AskInit /\ MenuInit /\ MainInit

SpecAsk == Init /\ [][AskNext]_vars

\* The pass of show_limit's loop on the window (s, e) of a call, or show_menu
\* itself when the call has no limit.
PassOf(call, s, e) ==
    IF call.limit > 0 THEN Window(call.entries, s, e, MenuDft(call.dft))
    ELSE PlainWindow(call.entries, call.dft)

\* The places, counted from 1, of the entries in entries[s:e] of a list of n.
Shown(s, e, n) == {i \in 1..n : s < i /\ i <= e}

\* A call of show_menu up to its first read: with a limit it is show_limit's
\* first window, clamped.
MenuEnter ==
    /\ m_pc = "idle"
    /\ \E call \in MenuCalls :
       \E w \in {IF call.limit > 0
                 THEN Clamp(0, call.limit, call.limit, Len(call.entries))
                 ELSE [istart |-> 0, iend |-> Len(call.entries)]} :
       \E pass \in {PassOf(call, w.istart, w.iend)} :
           /\ m_call' = call
           /\ istart' = w.istart
           /\ iend' = w.iend
           /\ m_win' = pass
           /\ m_cfg' = MenuAskCfg(pass.group, pass.tmpdft)
           /\ m_seen' = Shown(w.istart, w.iend, Len(call.entries))
    /\ m_pc' = "prompt"
    /\ UNCHANGED <<m_reads, m_result, m_calls, m_sel>>
    /\ UNCHANGED notMenu

\* One read at the menu prompt and all that follows it up to the next read or
\* the end of the call: ask's pass on the line, the entry's function, and in
\* show_limit the move of the window, clamped at the top of the loop, and the
\* next group.
MenuReadLine(line) ==
    /\ m_pc = "prompt"
    /\ \E r \in {ShowMenuStep(m_cfg, m_win.group, m_call.returns, line)} :
       \E nav \in {IF r.kind # "return" THEN "none"
                   ELSE IF m_call.limit > 0 THEN Navigation(m_win, r.val)
                   ELSE "return"} :
       \E w \in {Clamp(istart + Move(nav, m_call.limit), iend + Move(nav, m_call.limit),
                        m_call.limit, Len(m_call.entries))} :
       \E pass \in {IF nav \in {"next", "prev"}
                    THEN PassOf(m_call, w.istart, w.iend) ELSE m_win} :
           /\ m_reads' = m_reads + 1
           /\ m_calls' = m_calls \o r.calls
           /\ m_sel' = IF r.idx = 0 THEN m_sel
                       ELSE [at |-> m_reads + 1, choice |-> r.choice,
                             idx |-> r.idx, real |-> r.idx <= m_win.nreal,
                             nav |-> nav, entry |-> m_win.group[r.idx]]
           /\ m_pc' = CASE r.kind = "raise" -> "raised"
                        [] nav = "return" -> "done"
                        [] OTHER -> "prompt"
           /\ m_result' = IF nav = "return" THEN r.val ELSE m_result
           /\ IF nav \in {"next", "prev"}
              THEN /\ istart' = w.istart
                   /\ iend' = w.iend
                   /\ m_win' = pass
                   /\ m_cfg' = MenuAskCfg(pass.group, pass.tmpdft)
                   /\ m_seen' = m_seen \cup Shown(w.istart, w.iend, Len(m_call.entries))
              ELSE UNCHANGED <<istart, iend, m_win, m_cfg, m_seen>>
    /\ UNCHANGED m_call
    /\ UNCHANGED notMenu

\* A read at the menu prompt, of the next line of the script or of any line a
\* user may type.
MenuRead ==
    /\ m_reads < MaxMenuReads
    /\ \E line \in NextLines(m_call.script, m_reads) : MenuReadLine(line)

\* A read when the scripted input is used up: EOFError out of the call.
MenuEof ==
    /\ m_pc = "prompt"
    /\ NextLines(m_call.script, m_reads) = {}
    /\ m_pc' = "raised"
    /\ UNCHANGED <<m_call, istart, iend, m_win, m_cfg, m_reads, m_result,
                   m_calls, m_sel, m_seen>>
    /\ UNCHANGED notMenu

MenuNext == MenuEnter \/ MenuRead \/ MenuEof

SpecMenu == Init /\ [][MenuNext]_vars

\* A user who types nothing but the name of the next entry, as long as
\* show_limit offers one.
NextRead ==
    /\ m_call.limit > 0
    /\ m_call.script = <<>>
    /\ m_win.nnext # ""
    /\ MenuReadLine(m_win.nnext)

NextOnlyNext == MenuEnter \/ NextRead

\* The user answers the prompt: the steps of NextRead, which is enabled
\* whenever show_limit is at a prompt that offers the next entry.
NextAnswered ==
    /\ m_pc = "prompt"
    /\ m_call.limit > 0
    /\ m_call.script = <<>>
    /\ m_win.nnext # ""
    /\ m_reads' = m_reads + 1

\* show_limit driven by that user: every prompt is a blocking read that the
\* user answers.
SpecNextOnly == Init /\ [][NextOnlyNext]_vars /\ WF_m_reads(NextAnswered)

\* ---------------------------------------------------------------------------
\* Menu.main and the standard-input plumbing (StdinSetup, StdinAuto, setinput)
\* ---------------------------------------------------------------------------

\* sys.argv[1:] of the process: the model runs the program without arguments.
Argv == <<>>

\* StdinAuto.__init__: auto or sys.argv[1:].
AutoOf(auto) == IF auto # <<>> THEN auto ELSE Argv

\* The entries the caller adds to the menu "top". The functions "sub" and
\* "subq" run the menu "sub" with main(loop=False), "subq" with auto=["q"].
MainPool ==
    { MenuEntry("a", "A", "f", <<1>>, {}),
      MenuEntry("x", "X", "sub", <<>>, {}),
      MenuEntry("y", "Y", "subq", <<>>, {}),
      MenuEntry("b", "B", "boom", <<>>, {}),
      MenuEntry(QuitName, QuitDesc, "none", <<>>, {}) }

\* The scripted inputs handed to main(auto=...); <<>> is no script.
Autos == {<<>>, <<"q">>, <<"a">>, <<"a", "q">>, <<"x", "q">>, <<"y", "q">>}

\* The lines a stream other than stdin_setup._stream delivers.
MainLines == {"a", "b", "x", "y", "q", ""}

IsSub(entry) == entry.func \in {"sub", "subq"}
SubAuto(entry) == IF entry.func = "subq" THEN <<"q">> ELSE <<>>

\* Menu.main up to the with statement: the quit entry is added when the last
\* entry's name and description differ from it.
WithQuit(entries) ==
    IF <<Last(entries).name, Last(entries).desc>> # <<QuitName, QuitDesc>>
    THEN Append(entries, MenuEntry(QuitName, QuitDesc, "none", <<>>, {}))
    ELSE entries

\* The frame of a Menu.main call inside its with block; before is the value of
\* sys.stdin when main was called.
\* script is StdinAuto's self.auto; unread is the part of it that the prompts
\* read while the call runs have not been handed yet.
Frame(m, loop, before, script) ==
    [menu |-> m, loop |-> loop, before |-> before, pc |-> "show", idx |-> 0,
     ret |-> None, script |-> script, unread |-> script, sel |-> None,
     nsel |-> 0]

\* show_menu picked the entry at idx, whose requested field is result: sel is
\* the last result of show(), nsel the number of selections made in the call.
Picked(f, idx, result) == [f EXCEPT !.idx = idx, !.sel = result, !.nsel = @ + 1]

\* Menu.main returning after the first selection whatever loop is.
AfterShow_Once(f, result) == [f EXCEPT !.pc = "returning", !.ret = result]

\* Menu.main after show() returned result: the loop goes on until the result
\* is the quit entry's name or description; without loop the result is
\* returned.
AfterShow(f, result) ==
    IF f.loop
    THEN IF result \in {StrV(QuitName), StrV(QuitDesc)}
         THEN [f EXCEPT !.pc = "returning", !.ret = None]
         ELSE [f EXCEPT !.pc = "show"]
    ELSE [f EXCEPT !.pc = "returning", !.ret = result]

\* StdinAuto.__exit__ leaving the stream alone instead of tearing down.
Teardown_Keep(cur) == cur

\* StdinSetup.teardown: sys.stdin = self.original.
Teardown(cur) == Original

Top == stack[Len(stack)]
Below == SubSeq(stack, 1, Len(stack) - 1)

\* The innermost call in progress that was given a script, 0 when none was.
Scripted(st) ==
    LET js == {j \in 1..Len(st) : st[j].script # <<>>}
    IN IF js = {} THEN 0 ELSE CHOOSE j \in js : \A k \in js : k <= j

\* The calls in progress after one more prompt read: the read uses up a line
\* of the innermost script.
AfterRead(st, j) ==
    IF j = 0 \/ st[j].unread = <<>> THEN st
    ELSE [st EXCEPT ![j].unread = Tail(@)]

\* The caller adds an entry to the menu before running it (Menu.add).
MainAdd ==
    /\ stack = <<>>
    /\ x_calls = 0
    /\ Len(menus.top) < MaxMainEntries
    /\ \E e \in MainPool : menus' = [menus EXCEPT !.top = Append(@, e)]
    /\ UNCHANGED <<sys_stdin, buf, stack, x_last, x_reads, x_calls, x_runs>>
    /\ UNCHANGED notMain

\* The caller installs an input stream of its own, or puts back the one the
\* process started with.
MainInstall ==
    /\ stack = <<>>
    /\ x_calls = 0
    /\ \E s \in {"user", Original} : s # sys_stdin /\ sys_stdin' = s
    /\ UNCHANGED <<buf, menus, stack, x_last, x_reads, x_calls, x_runs>>
    /\ UNCHANGED notMain

\* Menu.main called on a menu without entries: self.entries[-1] raises
\* IndexError before the with statement is reached.
MainCallEmpty ==
    /\ stack = <<>>
    /\ x_calls < MaxCalls
    /\ menus.top = <<>>
    /\ x_calls' = x_calls + 1
    /\ x_last' = [how |-> "early", before |-> sys_stdin, after |-> sys_stdin,
                  ret |-> None]
    /\ UNCHANGED <<sys_stdin, buf, menus, stack, x_reads, x_runs>>
    /\ UNCHANGED notMain

\* Menu.main called by the caller, up to the first prompt: the quit entry,
\* StdinAuto.__init__ and __enter__ (setup and setinput when there is a
\* script).
MainCall ==
    /\ stack = <<>>
    /\ x_calls < MaxCalls
    /\ menus.top # <<>>
    /\ \E auto \in Autos, loop \in BOOLEAN :
        /\ menus' = [menus EXCEPT !.top = WithQuit(@)]
        /\ stack' = <<Frame("top", loop, sys_stdin, AutoOf(auto))>>
        /\ IF AutoOf(auto) # <<>>
           THEN sys_stdin' = "buf" /\ buf' = AutoOf(auto)
           ELSE UNCHANGED <<sys_stdin, buf>>
    /\ x_calls' = x_calls + 1
    /\ UNCHANGED <<x_last, x_reads, x_runs>>
    /\ UNCHANGED notMain

\* The lines the next read of sys.stdin can deliver.
StdinLines == IF sys_stdin = "buf"
              THEN IF buf = <<>> THEN {} ELSE {Head(buf)}
              ELSE MainLines

\* One read at the prompt of the innermost main and what follows it up to the
\* next program point: ask's pass on the line, the entry picked and its
\* function. A function that runs the menu "sub" enters the nested main up to
\* its first prompt.
MainRead ==
    /\ stack # <<>>
    /\ Top.pc = "show"
    /\ x_reads < MaxMainReads
    /\ \E line \in StdinLines :
       \E entries \in {menus[Top.menu]} :
       \E r \in {ShowMenuStep(MenuAskCfg(entries, None), entries, "name", line)} :
       \E rest \in {IF sys_stdin = "buf" THEN Tail(buf) ELSE buf} :
       \E st \in {AfterRead(stack, Scripted(stack))} :
       \E top \in {st[Len(st)]}, below \in {SubSeq(st, 1, Len(st) - 1)} :
           /\ x_runs' = x_runs \o r.calls
           /\ IF r.kind = "return" /\ IsSub(entries[r.idx])
              THEN \E auto \in {AutoOf(SubAuto(entries[r.idx]))} :
                   /\ menus' = [menus EXCEPT !.sub = WithQuit(@)]
                   /\ stack' = below \o
                         <<[Picked(top, r.idx, r.val) EXCEPT !.pc = "in_action"],
                           Frame("sub", FALSE, sys_stdin, auto)>>
                   /\ IF auto # <<>>
                      THEN sys_stdin' = "buf" /\ buf' = auto
                      ELSE sys_stdin' = sys_stdin /\ buf' = rest
              ELSE /\ stack' = below \o
                         << CASE r.kind = "retry" -> top
                              [] r.kind = "raise" -> [top EXCEPT !.pc = "raising"]
                              [] OTHER -> AfterShow(Picked(top, r.idx, r.val), r.val) >>
                   /\ buf' = rest
                   /\ UNCHANGED <<sys_stdin, menus>>
    /\ x_reads' = x_reads + 1
    /\ UNCHANGED <<x_last, x_calls>>
    /\ UNCHANGED notMain

\* A read when stdin_setup._stream is used up: EOFError out of show().
MainEof ==
    /\ stack # <<>>
    /\ Top.pc = "show"
    /\ StdinLines = {}
    /\ stack' = Below \o <<[Top EXCEPT !.pc = "raising"]>>
    /\ UNCHANGED <<sys_stdin, buf, menus, x_last, x_reads, x_calls, x_runs>>
    /\ UNCHANGED notMain

\* The with block of the innermost main is left, by return or by an exception:
\* StdinAuto.__exit__ tears the input down. The main that called it through an
\* entry's function goes on: show_menu returns the entry's name, or the
\* exception passes through.
MainExit ==
    /\ stack # <<>>
    /\ Top.pc \in {"returning", "raising"}
    /\ sys_stdin' = Teardown(sys_stdin)
    /\ x_last' = [how |-> Top.pc, before |-> Top.before,
                  after |-> Teardown(sys_stdin), ret |-> Top.ret]
    /\ stack' = IF Below = <<>> THEN <<>>
                ELSE LET p == Last(Below)
                         q == IF Top.pc = "raising"
                              THEN [p EXCEPT !.pc = "raising"]
                              ELSE AfterShow(p, Field(menus[p.menu][p.idx], "name"))
                     IN SubSeq(Below, 1, Len(Below) - 1) \o <<q>>
    /\ UNCHANGED <<buf, menus, x_reads, x_calls, x_runs>>
    /\ UNCHANGED notMain

MainNext == MainAdd \/ MainInstall \/ MainCallEmpty \/ MainCall \/ MainRead
            \/ MainEof \/ MainExit

SpecMain == Init /\ [][MainNext]_vars

\* The last line read went through the rule loop and ask() returned.
C14_Accepted ==
    /\ a_pc = "returned" /\ a_call.kind = "ask"
    /\ a_cfg.vld # <<>>
    /\ ~(Last(a_hist) = "" /\ a_cfg.dft # None)

C14_Tag(i) == a_cfg.vld[i].s

\* C14: when the rule that accepts a line is a type tag, ask() returns the
\* candidate converted by that type, a value of that type (0 and 0.0
\* included) and, for int and float, not the text read.
C14_TypeTagCoerces ==
    C14_Accepted =>
        \A i \in 1..Len(a_cfg.vld) :
            /\ i = FirstHit(FormatAns(a_cfg.fmt, Last(a_hist)), a_cfg.vld)
            /\ a_cfg.vld[i].t = "type"
            => /\ a_ret = CallType(C14_Tag(i), FormatAns(a_cfg.fmt, Last(a_hist)))
               /\ a_ret.t = C14_Tag(i)
               /\ C14_Tag(i) # "str" => a_ret # StrV(Last(a_hist))

C14_Witness ==
    /\ a_pc = "returned" /\ a_call.kind = "ask"
    /\ a_cfg.fmt = "none" /\ a_cfg.vld = <<TypV("int")>>
    /\ Last(a_hist) = "0"
    /\ a_ret = IntV(0)

\* C15: the outcome of a pass on a line, accepted or not and the value
\* returned, is the same for every order in which ask() may iterate the
\* deduplicated rules of the call.
C15_OrderIndependent ==
    a_hist # <<>> =>
        \A c2 \in AskSetup(a_call.fmt, a_call.dft, a_call.rules, a_call.blk) :
            /\ AskIter(c2, Last(a_hist)).kind = AskIter(a_cfg, Last(a_hist)).kind
            /\ AskIter(c2, Last(a_hist)).val = AskIter(a_cfg, Last(a_hist)).val

\* The requested default names an entry shown in the current window.
C16_Visible == InSeq(MenuDft(m_call.dft).s, NamesOf(m_win.group))

\* C16: in show_limit with a default requested, the default handed to
\* show_menu is the requested one when it names an entry of the window,
\* otherwise the name of the window's synthetic next entry, and none when
\* there is no such entry.
C16_DefaultRedirect ==
    m_pc = "prompt" /\ m_call.limit > 0 /\ m_call.dft # None =>
        m_win.tmpdft = IF C16_Visible THEN MenuDft(m_call.dft)
                       ELSE IF m_win.nnext # "" THEN StrV(m_win.nnext)
                       ELSE None

\* The names of the caller's entries shown in the current window.
C17_RealNames == SubSeq(NamesOf(m_win.group), 1, m_win.nreal)

\* The entry at place k of the window is the synthetic entry of description
\* desc named by the first of cands that no entry of the window carries.
C17_SyntheticAt(k, cands, desc) ==
    /\ k <= Len(m_win.group)
    /\ \E c \in 1..Len(cands) :
          /\ ~InSeq(cands[c], C17_RealNames)
          /\ \A b \in 1..(c - 1) : InSeq(cands[b], C17_RealNames)
          /\ m_win.group[k] = Synthetic(cands[c], desc)

\* C17: at every prompt of show_limit the window shows the caller's entries
\* of the slice, then, exactly when entries remain after it, the next entry
\* named by the first free candidate and described "Next <count> of <total>
\* entries", then, exactly when entries precede it, the previous entry
\* likewise; no two entries of which one is synthetic share a name.
C17_SyntheticEntries ==
    m_pc = "prompt" /\ m_call.limit > 0 =>
        LET total == Len(m_call.entries)
            unext == total - iend
            uprev == istart
            kn == IF unext > 0 THEN 1 ELSE 0
            kp == IF uprev > 0 THEN 1 ELSE 0
        IN /\ Len(m_win.group) = m_win.nreal + kn + kp
           /\ unext > 0 =>
                 C17_SyntheticAt(m_win.nreal + 1, NextNames, NextDesc(unext, total))
           /\ uprev > 0 =>
                 C17_SyntheticAt(m_win.nreal + kn + 1, PrevNames, PrevDesc(uprev, total))
           /\ \A i, j \in 1..Len(m_win.group) :
                 i # j /\ i > m_win.nreal => m_win.group[i].name # m_win.group[j].name

\* The last line read went through the rule loop of a call one of whose rules
\* is the predicate that raises.
C18_Checked ==
    /\ a_hist # <<>> /\ a_call.kind = "ask"
    /\ InSeq(FunV("p_raise"), a_cfg.vld)
    /\ Last(a_hist) # "?"
    /\ Last(a_hist) = "" => a_cfg.dft = None /\ PyIn(StrV(""), a_cfg.vld)

\* The rules of the call without the predicate that raises.
C18_Others == SelectSeq(a_cfg.vld, LAMBDA v : v # FunV("p_raise"))

\* What the other rules make of the line: None when none of them matches.
C18_Expected ==
    IF C18_Others = <<>> THEN None
    ELSE Validate(FormatAns(a_cfg.fmt, Last(a_hist)), C18_Others)

\* C18: a predicate rule that raises on the candidate does not end ask() with
\* an exception and counts as no match: the line is accepted or rejected, and
\* the value returned is, as the other rules of the call alone decide.
C18_RaisingPredicateIsNoMatch ==
    C18_Checked =>
        /\ a_pc # "raised"
        /\ C18_Expected = None => a_pc = "prompting"
        /\ C18_Expected # None => a_pc = "returned" /\ a_ret = C18_Expected

C18_Witness ==
    /\ a_pc = "returned" /\ a_call.kind = "ask"
    /\ a_cfg.vld = <<FunV("p_raise"), StrV("a")>>
    /\ Last(a_hist) = "a"
    /\ a_ret = StrV("a")

\* The values show_limit takes for a move of the window shown at this prompt.
C19_Moves ==
    {StrV(m_win.nnext), StrV(m_win.dnext), StrV(m_win.nprev), StrV(m_win.dprev)}

\* This step reads a line on which an entry is selected.
C19_ReadSelects == m_reads' = m_reads + 1 /\ m_sel'.at = m_reads'

C19_Step ==
    m_pc = "prompt" /\ m_call.limit > 0 =>
        /\ <<istart, iend, m_win>>' # <<istart, iend, m_win>> =>
              C19_ReadSelects /\ m_pc' = "prompt"
        /\ m_pc' = "done" =>
              C19_ReadSelects /\ m_result' \notin C19_Moves
        /\ m_pc' = "prompt" /\ C19_ReadSelects =>
              Field(m_sel'.entry, m_call.returns) \in C19_Moves

\* C19: in show_limit the window is computed anew only in a step that reads a
\* line, show_limit returns only on a line that selects an entry whose
\* returned field is none of the window's next and previous names and
\* descriptions, and a selection after which the loop goes on is one of these.
C19_ReadPerIteration == [][C19_Step]_vars

C19_Witness ==
    /\ m_pc = "done" /\ m_call.limit > 0
    /\ m_reads >= 2 /\ istart > 0
    /\ m_sel.real /\ m_sel.at = m_reads

\* A call of show_limit by a user who may type any line, on entries whose
\* names leave one of the next entry's candidate names free, is at its prompt.
C20_AtPrompt ==
    /\ m_pc = "prompt" /\ m_call.limit > 0 /\ m_call.script = <<>>
    /\ \E c \in 1..Len(NextNames) : ~InSeq(NextNames[c], NamesOf(m_call.entries))

\* The window ends at the last entry and offers no next entry.
C20_LastWindow ==
    /\ m_pc = "prompt"
    /\ Min(iend, Len(m_call.entries)) = Len(m_call.entries)
    /\ m_win.nnext = ""

C20_Offered ==
    C20_AtPrompt =>
        /\ m_win.nnext # "" <=> iend < Len(m_call.entries)
        /\ m_win.nnext = "" => m_seen = 1..Len(m_call.entries)

\* C20: with a user who selects only the next entry, from the first window on,
\* show_limit offers the next entry exactly while entries remain after the
\* window, reaches a window that ends at the last entry and offers no next
\* entry, and by then has shown every entry of the list.
C20_NextReachesAll == []C20_Offered /\ (C20_AtPrompt ~> C20_LastWindow)

C20_Witness ==
    /\ C20_AtPrompt /\ C20_LastWindow
    /\ m_reads >= 2
    /\ Len(m_call.entries) >= 3
    /\ m_seen = 1..Len(m_call.entries)

\* C21: ask leaves the caller's rule list unchanged: once a call of ask (made
\* directly or through ask_int, ask_float or ask_str, which hand vld through)
\* has started, the list object passed as vld holds the elements it was
\* passed with.
C21_RulesUnchanged ==
    (a_pc # "idle" /\ a_call.kind = "ask") => a_vld = a_call.rules

\* C11: a Menu.main call that was given scripted input and is at its prompt
\* reads from the scripted source, and what that source has left is the unread
\* rest of the call's own script, also after an entry's function ran another
\* Menu.main.
C11_ScriptKeptForCall ==
    stack # <<>> /\ Top.pc = "show" /\ Top.script # <<>> =>
        sys_stdin = "buf" /\ buf = Top.unread

IsQuit(v) == v \in {StrV(QuitName), StrV(QuitDesc)}

\* A selection is made in the innermost main, which loops, in this step.
C12_Selects ==
    /\ stack # <<>> /\ Top.loop /\ Top.pc = "show"
    /\ Len(stack') >= Len(stack)
    /\ stack'[Len(stack)].nsel = Top.nsel + 1

C12_Step ==
    C12_Selects =>
        x_runs' = x_runs \o RunFunc(menus[Top.menu][stack'[Len(stack)].idx])

C12_Frames ==
    \A j \in 1..Len(stack) :
        stack[j].loop =>
            /\ stack[j].pc = "returning" =>
                  stack[j].nsel > 0 /\ IsQuit(stack[j].sel) /\ stack[j].ret = None
            /\ stack[j].pc = "show" /\ stack[j].nsel > 0 => ~IsQuit(stack[j].sel)

\* C12: a Menu.main call with loop=True runs the selected entry's function at
\* every selection, goes back to its prompt after every selection that is
\* neither the quit entry's name nor its description, and returns, with None,
\* only after a selection that is one of the two.
C12_LoopsUntilQuit == [][C12_Step]_vars /\ []C12_Frames

C12_Witness ==
    /\ stack # <<>> /\ Top.loop /\ Top.pc = "returning"
    /\ Top.nsel = 2 /\ x_runs # <<>>

\* C13: once Menu.main has been called on a menu, with the default quit entry,
\* the menu's last entry is the quit entry, whatever entries the menu had,
\* none included.
C13_QuitEntryLast ==
    x_calls > 0 =>
        /\ menus.top # <<>>
        /\ <<Last(menus.top).name, Last(menus.top).desc>> = <<QuitName, QuitDesc>>

\* C10: when a Menu.main call has left its with block, sys.stdin is the stream
\* that was in effect when that call was made.
C10_StdinRestored ==
    x_last.how \in {"returning", "raising"} => x_last.after = x_last.before

\* ------------------------------------------------------- claims on ask()

\* C3 as stated: ask with the rules [1, 2, 3], no formatter and no default
\* rejects the line "5", accepts the line "2" and returns the integer 2 after
\* exactly two reads.
C3_Original ==
    a_call = Pick123("none") =>
        /\ a_hist = <<"5">> => a_pc = "prompting"
        /\ a_hist = <<"5", "2">> => a_pc = "returned" /\ a_ret = IntV(2)

\* C3 amended: with an integer formatter (int, or cast to int as ask_int
\* passes it) the rules [1, 2, 3] reject "5", accept "2" and return the
\* integer 2 after exactly two reads; with no formatter the text "2" does not
\* equal the integer 2 and is rejected like "5".
C3_Amended ==
    /\ \A f \in {"int", "cast_int"} :
        a_call = Pick123(f) =>
            /\ a_hist = <<"5">> => a_pc = "prompting" /\ a_ret = None
            /\ a_hist = <<"5", "2">> => a_pc = "returned" /\ a_ret = IntV(2)
    /\ a_call = Pick123("none") /\ a_hist \in {<<"5">>, <<"5", "2">>}
          => a_pc = "prompting" /\ a_ret = None

C3_Witness ==
    a_call = Pick123("cast_int") /\ a_hist = <<"5", "2">> /\ a_pc = "returned"

\* C4 as stated: a line that is exactly "?" returns to prompting without a
\* value and without raising, whatever the rules, default, blk and help
\* text; a valid line after any number of "?" lines is returned as accepted.
C4_HelpNeverRaises ==
    /\ a_hist # <<>> /\ Last(a_hist) = "?" => a_pc = "prompting" /\ a_ret = None
    /\ \A k \in 1..Len(a_hist) :
          /\ \A i \in 1..(k - 1) : a_hist[i] = "?"
          /\ AskIter(a_cfg, a_hist[k]).kind = "return"
          => /\ a_pc = "returned"
             /\ a_ret = CallResult(a_call.kind, AskIter(a_cfg, a_hist[k]).val)

\* C5: with a default set (not None once formatted), a blank line ends ask at
\* that read with the formatted default, not with what the rule loop would
\* make of it; ask_yesno(dft=True) on a blank line returns True.
C5_BlankTakesDefault ==
    /\ a_cfg.dft # None /\ a_hist # <<>> /\ Last(a_hist) = ""
          => a_pc = "returned" /\ a_ret = CallResult(a_call.kind, a_cfg.dft)
    /\ a_call = YesNoCall(BoolV(TRUE)) /\ a_hist = <<"">>
          => a_pc = "returned" /\ a_ret = BoolV(TRUE)

C5_Witness ==
    /\ a_call = YesNoCall(BoolV(TRUE))
    /\ a_hist = <<"">>
    /\ a_pc = "returned"
    /\ a_ret = BoolV(TRUE)

\* C6 as stated: with blk true, no default and no formatter the blank string
\* is among the rules of every rule set, the empty one included, and a blank
\* line is returned as ""; with blk false and no default a blank line is
\* always rejected.
C6_BlankPolicy ==
    a_pc \in {"prompting", "returned"} /\ a_call.kind = "ask"
        /\ a_call.fmt = "none" /\ a_call.dft = None
    => /\ a_call.blk => PyIn(StrV(""), a_cfg.vld)
       /\ a_call.blk /\ a_hist # <<>> /\ Last(a_hist) = ""
             => a_pc = "returned" /\ a_ret = StrV("")
       /\ ~a_call.blk /\ a_hist # <<>> /\ Last(a_hist) = ""
             => a_pc = "prompting" /\ a_ret = None

\* C7 as stated: a non-blank line on which the formatter fails (raises, or
\* gives None) is rejected under every rule set: no value is returned, nothing
\* is raised and ask prompts again.
C7_FormatFailureRejected ==
    /\ a_hist # <<>>
    /\ Last(a_hist) \notin {"", "?"}
    /\ ApplyFmt(a_cfg.fmt, StrV(Last(a_hist))) \in {Raise, None}
    => a_pc = "prompting" /\ a_ret = None

\* ----------------------------------------- claims on the menu engine

\* The window show_limit prompts with, or prompted with last.
AtWindow == m_call.limit > 0 /\ m_pc # "idle"

\* C1 as stated: at every prompt of show_limit, for every entry list, limit > 0
\* and sequence of selections, 0 <= istart <= iend <= len(entries) and
\* iend - istart <= limit.
C1_Original ==
    AtWindow =>
        /\ 0 <= istart /\ istart <= iend /\ iend <= Len(m_call.entries)
        /\ iend - istart <= m_call.limit

\* C1 amended: at every prompt 0 <= istart <= iend and iend - istart <= limit,
\* and iend <= len(entries) when the list is at least as long as the limit; for
\* a shorter list the window is (0, limit), past the end of the list, and the
\* slice shown is the whole list.
C1_Amended ==
    AtWindow =>
        /\ 0 <= istart /\ istart <= iend
        /\ iend - istart <= m_call.limit
        /\ Len(m_call.entries) >= m_call.limit => iend <= Len(m_call.entries)
        /\ Len(m_call.entries) < m_call.limit =>
              /\ istart = 0 /\ iend = m_call.limit
              /\ m_win.nreal = Len(m_call.entries)

C1_Witness ==
    /\ m_pc = "prompt"
    /\ m_call.limit = 2
    /\ Len(m_call.entries) = 3
    /\ m_sel.nav = "next"
    /\ istart = 1
    /\ iend = 3

Menu7(script) == MenuCall(Enum(7), 3, "name", None, script)

\* C2 as stated: 7 entries named "1".."7", limit 3, input n, n, 3: the third
\* input ends the call with the selection of a visible entry, made with the
\* window starting at index 6.
C2_Original ==
    m_call = Menu7(<<"n", "n", "3">>) /\ m_reads = 3 =>
        /\ m_pc = "done"
        /\ m_sel.at = 3 /\ m_sel.real
        /\ istart = 6

\* C2 amended: the inputs n, n move the window to (3, 6) and then to (4, 7),
\* the last window being shrunk from the end: it shows the entries 5, 6, 7 and
\* the previous entry. The input 3 names no entry of it and is rejected, so the
\* call does not end on it; the input 7 instead ends the call with "7", the
\* window starting at index 4.
C2_Amended ==
    /\ \A sc \in {<<"n", "n", "3">>, <<"n", "n", "7">>} :
          m_call = Menu7(sc) =>
            /\ m_reads = 1 => m_pc = "prompt" /\ istart = 3 /\ iend = 6
            /\ m_reads = 2 =>
                  /\ m_pc = "prompt" /\ istart = 4 /\ iend = 7
                  /\ m_win.names = <<"5", "6", "7", "p">>
    /\ m_call = Menu7(<<"n", "n", "3">>) /\ m_reads = 3 =>
          /\ m_pc \in {"prompt", "raised"}
          /\ m_result = None /\ m_sel.at = 2 /\ istart = 4
    /\ m_call = Menu7(<<"n", "n", "7">>) /\ m_reads = 3 =>
          /\ m_pc = "done" /\ m_result = StrV("7")
          /\ m_sel.at = 3 /\ m_sel.real /\ istart = 4

C2_Witness ==
    m_call = Menu7(<<"n", "n", "7">>) /\ m_reads = 3 /\ m_pc = "done"

\* C8 as stated: in show_limit every selection of one of the caller's entries,
\* whatever its name and description (empty ones included) and the field
\* returned, ends show_limit with that entry's field; only a selection of the
\* synthetic next or previous entry repeats the loop.
C8_RealSelectionReturns ==
    m_call.limit > 0 /\ m_sel.real /\ ~FuncRaises(m_sel.entry)
        /\ m_sel.at = m_reads
    => m_pc = "done" /\ m_result = Field(m_sel.entry, m_call.returns)

\* A choice was accepted and an entry found for it in this step.
C9_Selected == m_reads' = m_reads + 1 /\ m_sel'.at = m_reads'

C9_Step ==
    C9_Selected =>
        LET g == m_win.group
            i == m_sel'.idx
            call == [func |-> g[i].func, args |-> g[i].args, krgs |-> g[i].krgs]
        IN /\ StrV(g[i].name) = m_sel'.choice
           /\ \A j \in 1..(i - 1) : StrV(g[j].name) # m_sel'.choice
           /\ m_calls' = IF g[i].func = "none" THEN m_calls ELSE Append(m_calls, call)
           /\ m_pc' = "done" =>
                 m_result' = StrV(IF m_call.returns = "name" THEN g[i].name
                                  ELSE g[i].desc)
           /\ m_call.limit = 0 /\ g[i].func # "boom" => m_pc' = "done"

C9_Scenario ==
    m_call = MenuCall(AddSub, 0, "name", None, <<"a">>) /\ m_reads = 1 =>
        /\ m_pc = "done"
        /\ m_result = StrV("a")
        /\ m_calls = <<[func |-> "f", args |-> <<>>, krgs |-> {}]>>

\* C9: when ask() accepts a value in show_menu, the entry picked is the first
\* one of that name, its function (if it has one) is called exactly once with
\* the stored positional and named arguments, no other function is called, and
\* the requested field of that entry is what show_menu returns; the menu
\* [("a", "Add"), ("b", "Subtract")] on the input "a" returns "a" after one call.
C9_FirstEntryRunOnce == [][C9_Step]_vars /\ []C9_Scenario

C9_Witness ==
    /\ m_pc = "done"
    /\ m_call.limit = 0
    /\ m_sel.idx = 1
    /\ \E j \in 2..Len(m_call.entries) : m_call.entries[j].name = m_call.entries[1].name
    /\ m_calls = <<[func |-> "f", args |-> <<1>>, krgs |-> {"k"}]>>
    /\ m_result = StrV("a")

====
